---- MODULE Spec2Model ----
(***************************************************************************)
(* Change-detection run of scrapers/ancient_owls/ancient_owls_scraper.py.  *)
(* One run of main(): fetch the category links, scrape every category      *)
(* page, classify the batch against product_database.json, notify, and     *)
(* rewrite product_database.json.  Runs follow one another; a run may be   *)
(* killed at any step.                                                     *)
(***************************************************************************)
EXTENDS Integers, Sequences, FiniteSets, TLC

(* ---------------------------- bounds ----------------------------------- *)
\* most product items scraped in one run (all category pages together)
MaxBatch == 2
\* most category links found on the main page
MaxCats == 2

(* ---------------------------- inputs ----------------------------------- *)
NA == "N/A"
U1 == "https://www.ancientowlnaturals.com/products/amethyst-tower"
U2 == "https://www.ancientowlnaturals.com/products/clear-quartz-point"

\* what one <li class="product"> can be extracted to (name, url, sold_out);
\* the price text is never compared, one value stands for it
Price == "$40.00"
Items ==
    {[name |-> "Amethyst Tower", url |-> U1, sold_out |-> "Yes"],
     [name |-> "Amethyst Tower", url |-> U1, sold_out |-> "No"],
     [name |-> "Clear Quartz Point", url |-> U2, sold_out |-> "Yes"],
     [name |-> "Clear Quartz Point", url |-> U2, sold_out |-> "No"],
     [name |-> NA, url |-> NA, sold_out |-> "No"]}

\* category URLs as path segments; the navigation menu lists them in order
Slugs == <<"crystals", "products", "jewelry", "candles">>
CategoryUrl(i) ==
    <<"https:", "", "www.ancientowlnaturals.com", "collections", Slugs[i]>>

\* category_url.split('/')[-1]
LastSegment(category_url) == category_url[Len(category_url)]

\* sequences over S of length 0..n
RECURSIVE SeqsUpTo(_, _)
SeqsUpTo(S, n) ==
    IF n = 0 THEN {<<>>}
    ELSE LET shorter == SeqsUpTo(S, n - 1)
         IN  shorter \cup {Append(s, x) : s \in {t \in shorter : Len(t) = n - 1}, x \in S}

(* --------------------------- identity hash ----------------------------- *)
\* hashlib.sha256(url.encode('utf-8')).hexdigest(), tabulated on the URLs in scope
Hash(url) ==
    CASE url = U1 -> "dd2e716cf85debd13c3511f8041e243f8635dfd83f2cafb215fbe5e6a9cdc1b9"
      [] url = U2 -> "ef4e82626211ae7bf1da8db60913d230d0df60f0017e265669e4a4e5a2447b1d"
      [] url = NA -> "e2f79e5b60330bba4c289962231b6ba2957d0b14e7deb3110417003c79dea635"

(* ------------------------------ dicts ---------------------------------- *)
\* a Python dict: insertion-ordered sequence of [key, value] with unique keys
EmptyDict == <<>>

\* dict.get(key) of a missing key
None == [none |-> TRUE]

DictKeys(d) == {d[i].key : i \in DOMAIN d}

DictGet(d, k) ==
    IF k \in DictKeys(d)
    THEN (d[CHOOSE i \in DOMAIN d : d[i].key = k]).value
    ELSE None

\* the bug "first write wins" (dict.setdefault)
DictSet_setdefault(d, k, v) ==
    IF k \in DictKeys(d) THEN d ELSE Append(d, [key |-> k, value |-> v])

\* d[k] = v : an existing key keeps its position and takes the new value
DictSet(d, k, v) ==
    IF k \in DictKeys(d)
    THEN [i \in DOMAIN d |-> IF d[i].key = k THEN [key |-> k, value |-> v] ELSE d[i]]
    ELSE Append(d, [key |-> k, value |-> v])

(* ------------------------- snapshot file ------------------------------- *)
\* product_database.json: missing, or the chunks written to it so far
NoFile == [exists |-> FALSE, text |-> <<>>]

EntryToken(kv) ==
    [t |-> "entry", key |-> kv.key, name |-> kv.value.name,
     url |-> kv.value.url, sold_out |-> kv.value.sold_out]
OpenToken == [t |-> "{", key |-> "", name |-> "", url |-> "", sold_out |-> ""]
CloseToken == [t |-> "}", key |-> "", name |-> "", url |-> "", sold_out |-> ""]
EmptyObjectToken == [t |-> "{}", key |-> "", name |-> "", url |-> "", sold_out |-> ""]

\* json.dump(database, f, indent=2): the chunks the encoder hands to f.write
Dump(database) ==
    IF database = EmptyDict THEN <<EmptyObjectToken>>
    ELSE <<OpenToken>> \o [i \in DOMAIN database |-> EntryToken(database[i])]
         \o <<CloseToken>>

WellFormed(text) ==
    \/ text = <<EmptyObjectToken>>
    \/ /\ Len(text) >= 3
       /\ text[1] = OpenToken
       /\ text[Len(text)] = CloseToken
       /\ \A i \in 2..(Len(text) - 1) : text[i].t = "entry"

RECURSIVE ParseEntries(_, _)
ParseEntries(tokens, d) ==
    IF tokens = <<>> THEN d
    ELSE LET tk == Head(tokens)
         IN  ParseEntries(Tail(tokens),
                 DictSet(d, tk.key,
                     [name |-> tk.name, url |-> tk.url, sold_out |-> tk.sold_out]))

\* load_product_database: {} when the file is missing or does not parse
load_product_database(file) ==
    IF ~file.exists THEN EmptyDict
    ELSE IF ~WellFormed(file.text) THEN EmptyDict
    ELSE IF file.text = <<EmptyObjectToken>> THEN EmptyDict
    ELSE ParseEntries(SubSeq(file.text, 2, Len(file.text) - 1), EmptyDict)

(* --------------------------- classification ---------------------------- *)
\* the entry stored for a product (main, current_db[product_hash] = {...})
EntryOf(product) ==
    [name |-> product.name, url |-> product.url, sold_out |-> product.sold_out]

\* the bug "a sold-out previous state counts as new"
IsNew_orSoldOut(previous_product_state) ==
    \/ previous_product_state = None
    \/ previous_product_state.sold_out = "Yes"

\* `not previous_product_state`: None (stored entries are non-empty dicts, truthy)
IsNew(previous_product_state) == previous_product_state = None

\* the bug "the previous state is not consulted"
IsRestock_currentOnly(previous_product_state, product) ==
    product.sold_out = "No"

\* the bug "the current state is not consulted"
IsRestock_previousOnly(previous_product_state, product) ==
    previous_product_state.sold_out = "Yes"

IsRestock(previous_product_state, product) ==
    /\ previous_product_state.sold_out = "Yes"
    /\ product.sold_out = "No"

\* the bug "carry the previous database forward"
InitialCurrentDb_carry(previous_db) == previous_db

\* current_db = {}
InitialCurrentDb(previous_db) == EmptyDict

\* the bug "look the product up in what this batch has stored so far as well"
ClassifyOne_cumulative(acc, product, previous_db) ==
    LET product_hash == Hash(product.url)
        seen == DictGet(acc.current_db, product_hash)
        previous_product_state ==
            IF seen # None THEN seen ELSE DictGet(previous_db, product_hash)
    IN  [current_db |-> DictSet(acc.current_db, product_hash, EntryOf(product)),
         newly_found_products |->
             IF IsNew(previous_product_state)
             THEN Append(acc.newly_found_products, product)
             ELSE acc.newly_found_products,
         restocked_products |->
             IF ~IsNew(previous_product_state) /\ IsRestock(previous_product_state, product)
             THEN Append(acc.restocked_products, product)
             ELSE acc.restocked_products]

\* one iteration of `for product in all_products`
ClassifyOne(acc, product, previous_db) ==
    LET product_hash == Hash(product.url)
        previous_product_state == DictGet(previous_db, product_hash)
    IN  [current_db |-> DictSet(acc.current_db, product_hash, EntryOf(product)),
         newly_found_products |->
             IF IsNew(previous_product_state)
             THEN Append(acc.newly_found_products, product)
             ELSE acc.newly_found_products,
         restocked_products |->
             IF ~IsNew(previous_product_state) /\ IsRestock(previous_product_state, product)
             THEN Append(acc.restocked_products, product)
             ELSE acc.restocked_products]

RECURSIVE ClassifyLoop(_, _, _)
ClassifyLoop(products, previous_db, acc) ==
    IF products = <<>> THEN acc
    ELSE ClassifyLoop(Tail(products), previous_db,
                      ClassifyOne(acc, Head(products), previous_db))

\* Step 3 of main
Classify(products, previous_db) ==
    ClassifyLoop(products, previous_db,
        [current_db |-> InitialCurrentDb(previous_db),
         newly_found_products |-> <<>>,
         restocked_products |-> <<>>])

(* ---------------------------- notification ----------------------------- *)
Outcomes == {"no_credentials", "non_2xx", "exception", "sent"}

\* the bug "an exception while sending escapes"
send_pushover_notification_raises(outcome, title, products, sink) ==
    [raised |-> outcome = "exception",
     sink |-> IF outcome = "sent"
              THEN Append(sink, [title |-> title, products |-> products])
              ELSE sink]

\* returns in every case; the message reaches the sink on a 2xx answer
send_pushover_notification(outcome, title, products, sink) ==
    [raised |-> FALSE,
     sink |-> IF outcome = "sent"
              THEN Append(sink, [title |-> title, products |-> products])
              ELSE sink]

\* the bug "always go on to scrape"
NoCategories_never(categories) == FALSE

\* `if not categories: return`
NoCategories(categories) == categories = <<>>

(* ------------------------------ state ---------------------------------- *)
VARIABLES
    disk,                  \* product_database.json
    pc,                    \* position of main
    categories, cat_idx,   \* category links and the next one to scrape
    all_products,
    previous_db, current_db, newly_found_products, restocked_products,
    database, written,     \* save_product_database: argument, chunks written
    delivered,             \* notifications the sink accepted
    pre_disk,              \* history: the file when the run started
    dropped                \* history: keys the last completed run dropped

vars == <<disk, pc, categories, cat_idx, all_products, previous_db, current_db,
          newly_found_products, restocked_products, database, written,
          delivered, pre_disk, dropped>>

Stopped == {"idle", "done", "killed", "aborted"}

Init ==
    /\ disk = NoFile
    /\ pc = "idle"
    /\ categories = <<>>
    /\ cat_idx = 1
    /\ all_products = <<>>
    /\ previous_db = EmptyDict
    /\ current_db = EmptyDict
    /\ newly_found_products = <<>>
    /\ restocked_products = <<>>
    /\ database = EmptyDict
    /\ written = 0
    /\ delivered = <<>>
    /\ pre_disk = NoFile
    /\ dropped = {}

\* a call that raised ends main; otherwise main goes on
AfterCall(result, next) == IF result.raised THEN "aborted" ELSE next

\* main, lines 182-196: a new run; get_category_links finds n links
\* (none when the main page cannot be fetched)
StartRun ==
    /\ pc \in Stopped
    /\ \E n \in 0..MaxCats :
        /\ categories' = [i \in 1..n |-> [url |-> CategoryUrl(i)]]
        /\ IF NoCategories(categories')
           THEN /\ pc' = "done"
                /\ dropped' = {}
           ELSE /\ pc' = "scraping"
                /\ UNCHANGED dropped
    /\ cat_idx' = 1
    /\ all_products' = <<>>
    /\ previous_db' = EmptyDict
    /\ current_db' = EmptyDict
    /\ newly_found_products' = <<>>
    /\ restocked_products' = <<>>
    /\ database' = EmptyDict
    /\ written' = 0
    /\ delivered' = <<>>
    /\ pre_disk' = disk
    /\ UNCHANGED disk

\* scrape_products_from_category: the products of one page, [] on a failure
ProductsOnPage(category_url, page) ==
    [i \in DOMAIN page |->
        [name |-> page[i].name, price |-> Price, url |-> page[i].url,
         sold_out |-> page[i].sold_out, category |-> LastSegment(category_url)]]

\* main, lines 200-204: one iteration of `for category in categories`
ScrapeCategory ==
    /\ pc = "scraping"
    /\ cat_idx <= Len(categories)
    /\ \E page \in SeqsUpTo(Items, MaxBatch - Len(all_products)) :
        all_products' = all_products \o ProductsOnPage(categories[cat_idx].url, page)
    /\ cat_idx' = cat_idx + 1
    /\ UNCHANGED <<disk, pc, categories, previous_db, current_db, newly_found_products,
                   restocked_products, database, written, delivered, pre_disk, dropped>>

\* main, lines 206-210: nothing was scraped, save_product_database({}) is called
NoProducts ==
    /\ pc = "scraping"
    /\ cat_idx > Len(categories)
    /\ all_products = <<>>
    /\ database' = EmptyDict
    /\ pc' = "save_open"
    /\ UNCHANGED <<disk, categories, cat_idx, all_products, previous_db, current_db,
                   newly_found_products, restocked_products, written, delivered,
                   pre_disk, dropped>>

AfterClassify(new, restocked) ==
    IF new # <<>> THEN "notify_new"
    ELSE IF restocked # <<>> THEN "notify_restocked"
    ELSE "save_open"

\* main, lines 213-237
ClassifyBatch ==
    /\ pc = "scraping"
    /\ cat_idx > Len(categories)
    /\ all_products # <<>>
    /\ previous_db' = load_product_database(disk)
    /\ LET r == Classify(all_products, previous_db')
       IN  /\ current_db' = r.current_db
           /\ newly_found_products' = r.newly_found_products
           /\ restocked_products' = r.restocked_products
           /\ database' = r.current_db
           /\ pc' = AfterClassify(r.newly_found_products, r.restocked_products)
    /\ UNCHANGED <<disk, categories, cat_idx, all_products, written, delivered,
                   pre_disk, dropped>>

\* main, lines 240-244; save_to_csv rewrites new_products.csv, a file that
\* no step of the program reads back
NotifyNew ==
    /\ pc = "notify_new"
    /\ \E outcome \in Outcomes :
        LET res == send_pushover_notification(outcome,
                       [kind |-> "NEW", count |-> Len(newly_found_products)],
                       newly_found_products, delivered)
        IN  /\ delivered' = res.sink
            /\ pc' = AfterCall(res, IF restocked_products # <<>>
                                    THEN "notify_restocked" ELSE "save_open")
    /\ UNCHANGED <<disk, categories, cat_idx, all_products, previous_db, current_db,
                   newly_found_products, restocked_products, database, written,
                   pre_disk, dropped>>

\* main, lines 246-249
NotifyRestocked ==
    /\ pc = "notify_restocked"
    /\ \E outcome \in Outcomes :
        LET res == send_pushover_notification(outcome,
                       [kind |-> "RESTOCKED", count |-> Len(restocked_products)],
                       restocked_products, delivered)
        IN  /\ delivered' = res.sink
            /\ pc' = AfterCall(res, "save_open")
    /\ UNCHANGED <<disk, categories, cat_idx, all_products, previous_db, current_db,
                   newly_found_products, restocked_products, database, written,
                   pre_disk, dropped>>

\* save_product_database, open(filename, 'w'): the file is created or truncated
SaveOpen ==
    /\ pc = "save_open"
    /\ disk' = [exists |-> TRUE, text |-> <<>>]
    /\ written' = 0
    /\ pc' = "save_write"
    /\ UNCHANGED <<categories, cat_idx, all_products, previous_db, current_db,
                   newly_found_products, restocked_products, database, delivered,
                   pre_disk, dropped>>

\* save_product_database, json.dump: the next chunk reaches the file; after
\* the last one the file is closed and main returns
SaveWrite ==
    /\ pc = "save_write"
    /\ written < Len(Dump(database))
    /\ disk' = [disk EXCEPT !.text = Append(@, Dump(database)[written + 1])]
    /\ written' = written + 1
    /\ IF written' = Len(Dump(database))
       THEN /\ pc' = "done"
            /\ dropped' = DictKeys(previous_db) \
                              {Hash(all_products[i].url) : i \in DOMAIN all_products}
       ELSE /\ pc' = "save_write"
            /\ UNCHANGED dropped
    /\ UNCHANGED <<categories, cat_idx, all_products, previous_db, current_db,
                   newly_found_products, restocked_products, database, delivered,
                   pre_disk>>

\* the process is killed in the middle of a run: its memory is gone, the
\* file stays as it is
Kill ==
    /\ pc \notin Stopped
    /\ pc' = "killed"
    /\ categories' = <<>>
    /\ cat_idx' = 1
    /\ all_products' = <<>>
    /\ previous_db' = EmptyDict
    /\ current_db' = EmptyDict
    /\ newly_found_products' = <<>>
    /\ restocked_products' = <<>>
    /\ database' = EmptyDict
    /\ written' = 0
    /\ delivered' = <<>>
    /\ dropped' = {}
    /\ UNCHANGED <<disk, pre_disk>>

Next ==
    \/ StartRun
    \/ ScrapeCategory
    \/ NoProducts
    \/ ClassifyBatch
    \/ NotifyNew
    \/ NotifyRestocked
    \/ SaveOpen
    \/ SaveWrite
    \/ Kill

Spec == Init /\ [][Next]_vars

(* ------------------------------ claims --------------------------------- *)
\* the batch has been classified in this run
Classified ==
    /\ pc \in {"notify_new", "notify_restocked", "save_open", "save_write", "done"}
    /\ all_products # <<>>

\* the run has returned from main with a non-empty batch
Completed == pc = "done" /\ all_products # <<>>

InSeq(x, s) == \E i \in DOMAIN s : s[i] = x

BatchKeys == {Hash(all_products[i].url) : i \in DOMAIN all_products}

Known(product) == Hash(product.url) \in DictKeys(previous_db)

PriorOf(product) ==
    previous_db[CHOOSE j \in DOMAIN previous_db :
                    previous_db[j].key = Hash(product.url)].value

\* index of the last occurrence in the batch of the identity of all_products[i]
LastIndex(i) ==
    CHOOSE j \in DOMAIN all_products :
        /\ all_products[j].url = all_products[i].url
        /\ \A m \in DOMAIN all_products :
               all_products[m].url = all_products[i].url => m <= j

CompleteFile(db) == [exists |-> TRUE, text |-> Dump(db)]

\* C1 (as claimed): a run that scraped no product leaves the persisted
\* snapshot as it was before the run.
C1_ZeroBatchKeepsSnapshot ==
    (pc = "done" /\ all_products = <<>>)
        => load_product_database(disk) = load_product_database(pre_disk)

\* C1 (amended): a run that finds no category link leaves the snapshot file
\* untouched; a run that finds categories but no product on any page replaces
\* the snapshot by the empty one.
C1_ZeroBatchAmended ==
    (pc = "done" /\ all_products = <<>>)
        => IF categories = <<>>
           THEN disk = pre_disk
           ELSE disk = CompleteFile(EmptyDict)

C1_Witness ==
    /\ pc = "done"
    /\ all_products = <<>>
    /\ categories # <<>>
    /\ load_product_database(pre_disk) # EmptyDict
    /\ load_product_database(disk) = EmptyDict

\* C2 (as claimed): classifying the batch of a completed run again, against
\* the snapshot that run saved, reports nothing new and nothing restocked.
C2_Idempotent ==
    Completed
        => LET again == Classify(all_products, load_product_database(disk))
           IN  /\ again.newly_found_products = <<>>
               /\ again.restocked_products = <<>>

\* no identity occurs in stock in the batch while its last occurrence is sold out
NoStaleInStock ==
    \A i \in DOMAIN all_products :
        all_products[i].sold_out = "No"
            => all_products[LastIndex(i)].sold_out = "No"

\* C2 (amended): the second classification is empty for every non-empty batch
\* in which no identity key has an in-stock occurrence while the last
\* occurrence of that key is sold out.
C2_IdempotentAmended ==
    (Completed /\ NoStaleInStock)
        => LET again == Classify(all_products, load_product_database(disk))
           IN  /\ again.newly_found_products = <<>>
               /\ again.restocked_products = <<>>

C2_Witness ==
    /\ Completed
    /\ NoStaleInStock
    /\ \E i, j \in DOMAIN all_products :
           /\ i < j
           /\ all_products[i].url = all_products[j].url
           /\ all_products[i].sold_out # all_products[j].sold_out
    /\ previous_db # EmptyDict

\* C3: restocked_products holds exactly the occurrences whose identity the
\* loaded snapshot has as sold out and which are in stock now, in scraped
\* order; any other occurrence of a known identity is in neither result.
C3_RestockIff ==
    Classified
        => /\ restocked_products =
                SelectSeq(all_products,
                    LAMBDA r : /\ Known(r)
                               /\ PriorOf(r).sold_out = "Yes"
                               /\ r.sold_out = "No")
           /\ \A i \in DOMAIN all_products :
                  LET r == all_products[i]
                  IN  (Known(r) /\ ~(PriorOf(r).sold_out = "Yes" /\ r.sold_out = "No"))
                          => /\ ~InSeq(r, newly_found_products)
                             /\ ~InSeq(r, restocked_products)

C3_Witness ==
    /\ Classified
    /\ restocked_products # <<>>
    /\ \E i \in DOMAIN all_products :
           /\ Known(all_products[i])
           /\ ~InSeq(all_products[i], restocked_products)

\* C4: newly_found_products holds exactly the occurrences whose identity the
\* loaded snapshot lacks, whatever their availability, and none of them is
\* restocked; with an empty snapshot and n distinct keys all n are new, none
\* is restocked and the updated snapshot has n entries.
C4_NewIffAbsent ==
    Classified
        => /\ newly_found_products =
                SelectSeq(all_products, LAMBDA r : ~Known(r))
           /\ \A i \in DOMAIN all_products :
                  ~Known(all_products[i])
                      => ~InSeq(all_products[i], restocked_products)
           /\ (/\ previous_db = EmptyDict
               /\ Cardinality(BatchKeys) = Len(all_products))
                  => /\ newly_found_products = all_products
                     /\ restocked_products = <<>>
                     /\ Len(current_db) = Len(all_products)
                     /\ Cardinality(DictKeys(current_db)) = Len(all_products)

C4_Witness ==
    /\ Classified
    /\ previous_db = EmptyDict
    /\ Len(all_products) >= 2
    /\ Cardinality(BatchKeys) = Len(all_products)
    /\ \E i \in DOMAIN all_products : all_products[i].sold_out = "Yes"
    /\ Len(newly_found_products) = Len(all_products)

\* C5: every occurrence is classified against the snapshot loaded at the
\* start of the run: per identity key, the new records are all its occurrences
\* when the loaded snapshot lacks the key, and the restocked records are all
\* its in-stock occurrences when the loaded snapshot has it sold out, in
\* scraped order.
C5_AgainstPriorOnly ==
    Classified
        => \A u \in {all_products[i].url : i \in DOMAIN all_products} :
               LET occ == SelectSeq(all_products, LAMBDA r : r.url = u)
                   new == SelectSeq(newly_found_products, LAMBDA r : r.url = u)
                   re == SelectSeq(restocked_products, LAMBDA r : r.url = u)
               IN  IF Hash(u) \notin DictKeys(previous_db)
                   THEN new = occ /\ re = <<>>
                   ELSE /\ new = <<>>
                        /\ re = IF DictGet(previous_db, Hash(u)).sold_out = "Yes"
                                THEN SelectSeq(occ, LAMBDA r : r.sold_out = "No")
                                ELSE <<>>

C5_Witness ==
    /\ Classified
    /\ \E i, j \in DOMAIN newly_found_products :
           /\ i < j
           /\ newly_found_products[i].url = newly_found_products[j].url
           /\ newly_found_products[i].sold_out # newly_found_products[j].sold_out

\* C6: after a completed run with a non-empty batch the persisted snapshot
\* maps every identifier of the batch to the name, key and availability of the
\* last occurrence of that identity; where that is sold out, an in-stock
\* observation classified against the persisted snapshot is restocked.
C6_SnapshotHoldsLastObservation ==
    Completed
        => \A i \in DOMAIN all_products :
               LET last == all_products[LastIndex(i)]
                   saved == load_product_database(disk)
                   back == [last EXCEPT !.sold_out = "No"]
               IN  /\ DictGet(saved, Hash(last.url)) =
                          [name |-> last.name, url |-> last.url,
                           sold_out |-> last.sold_out]
                   /\ last.sold_out = "Yes"
                          => Classify(<<back>>, saved).restocked_products = <<back>>

C6_Witness ==
    /\ Completed
    /\ newly_found_products = <<>>
    /\ restocked_products = <<>>
    /\ delivered = <<>>
    /\ \E i \in DOMAIN all_products :
           /\ Known(all_products[i])
           /\ PriorOf(all_products[i]).sold_out = "No"
           /\ all_products[LastIndex(i)].sold_out = "Yes"
           /\ DictGet(load_product_database(disk),
                      Hash(all_products[i].url)).sold_out = "Yes"

\* C7 (as claimed): in every state, whoever reads the snapshot file obtains
\* the complete snapshot the run started with or the complete snapshot the run
\* is saving, never an empty or partly written one.
C7_AllOrNothing ==
    LET seen == load_product_database(disk)
    IN  \/ seen = load_product_database(pre_disk)
        \/ /\ pc \in {"save_write", "done"}
           /\ seen = database

\* C8: no outcome of a notification attempt ends the run, and a completed run
\* with a non-empty batch has saved the snapshot classified from the batch and
\* the snapshot it loaded, whatever the sink accepted.
C8_NotificationNeverBlocksSave ==
    /\ pc # "aborted"
    /\ Completed
           => disk = CompleteFile(
                  Classify(all_products, load_product_database(pre_disk)).current_db)

C8_Witness ==
    /\ Completed
    /\ newly_found_products # <<>>
    /\ restocked_products # <<>>
    /\ delivered = <<>>
    /\ disk = CompleteFile(current_db)
    /\ disk # pre_disk

\* C9 (as claimed): a record whose URL is the placeholder 'N/A' is in neither
\* result and gets no snapshot entry.
C9_MissingKeyExcluded ==
    Classified
        => /\ \A i \in DOMAIN all_products :
                  all_products[i].url = NA
                      => /\ ~InSeq(all_products[i], newly_found_products)
                         /\ ~InSeq(all_products[i], restocked_products)
           /\ Hash(NA) \notin DictKeys(current_db)
           /\ pc = "done" => Hash(NA) \notin DictKeys(load_product_database(disk))

\* C10: after a completed run with a non-empty batch the persisted key set is
\* the set of identifiers of the batch; a product the previous completed run
\* dropped (in the snapshot before it, absent from its non-empty batch) is
\* new and not restocked in the run that follows.
C10_RebuildFromBatchOnly ==
    /\ Completed => DictKeys(load_product_database(disk)) = BatchKeys
    /\ (Classified /\ pc # "done")
           => \A i \in DOMAIN all_products :
                  Hash(all_products[i].url) \in dropped
                      => /\ InSeq(all_products[i], newly_found_products)
                         /\ ~InSeq(all_products[i], restocked_products)

C10_Witness ==
    /\ Classified
    /\ pc # "done"
    /\ previous_db # EmptyDict
    /\ \E i \in DOMAIN all_products :
           /\ Hash(all_products[i].url) \in dropped
           /\ all_products[i].sold_out = "No"
           /\ InSeq(all_products[i], newly_found_products)

====
